---- MODULE Spec2Model ----
(***************************************************************************)
(* Model of extract_hidden_files.py: the signature catalog, the scanner    *)
(* find_file_signatures, the filename heuristic extract_filename, and the  *)
(* extraction loop of extract_files_from_image as driven by main.          *)
(*                                                                         *)
(* Bytes are the integers 0..255, text is a sequence of code points, and   *)
(* offsets are 0-based as in the Python source: byte o of a buffer d is    *)
(* d[o + 1].  A footer of None is the empty sequence (both are falsy in    *)
(* the test `if footer:`).                                                 *)
(***************************************************************************)
EXTENDS Integers, Sequences, FiniteSets, TLC

\* ------------------------------------------------------------- bounds

\* Number of chunks an input buffer of the extraction run is built from.
MaxChunks == 3

\* Number of chunks an input of extract_filename is built from.
MaxNameChunks == 3

\* Longest prefix a failed write may leave behind in the model.
MaxPartial == 1

\* ------------------------------------------------ Python primitives

Min(S) == CHOOSE x \in S : \A y \in S : x <= y

Max(S) == CHOOSE x \in S : \A y \in S : x >= y

\* data[start:end] for a bytes or str object: negative indices count from
\* the end, both are clipped to the object, and an empty range gives b''.
PySlice(data, start, end) ==
    LET n  == Len(data)
        s0 == IF start < 0 THEN Max({start + n, 0}) ELSE Min({start, n})
        e0 == IF end < 0 THEN Max({end + n, 0}) ELSE Min({end, n})
    IN  IF e0 <= s0 THEN << >> ELSE SubSeq(data, s0 + 1, e0)

\* Whether sub lies in data at 0-based position p.
MatchAt(data, sub, p) ==
    /\ p >= 0
    /\ p + Len(sub) <= Len(data)
    /\ \A k \in 1..Len(sub) : data[p + k] = sub[k]

\* data.find(sub, start): the first position from start on, left to right,
\* at which sub lies in data, -1 when there is none.
Find(data, sub, start) ==
    LET IsMatch(p) == MatchAt(data, sub, p)
        from       == IF start < 0 THEN 0 ELSE start
        last       == Len(data) - Len(sub)
        scanned    == IF last < from THEN << >>
                      ELSE [k \in 1..(last - from + 1) |-> from + k - 1]
        matches    == SelectSeq(scanned, IsMatch)
    IN  IF matches = << >> THEN -1 ELSE matches[1]

\* The positions 1..Len(s) of s, in order.
Positions(s) == [k \in 1..Len(s) |-> k]

\* s.split(sep) for a one-character separator: the fragments between the
\* separators, a single empty fragment for the empty string.
Split(s, sep) ==
    LET IsSep(k) == s[k] = sep
        seps     == SelectSeq(Positions(s), IsSep)
        n        == Len(seps)
    IN  [j \in 1..(n + 1) |->
            SubSeq(s, IF j = 1 THEN 1 ELSE seps[j - 1] + 1,
                      IF j = n + 1 THEN Len(s) ELSE seps[j] - 1)]

\* c in s, for a character c.
Contains(s, c) == \E k \in 1..Len(s) : s[k] = c

\* str.isspace() for one character: the code points Python treats as
\* whitespace.
IsSpace(c) ==
    \/ c \in 9..13
    \/ c \in 28..32
    \/ c \in {133, 160, 5760, 8232, 8233, 8239, 8287, 12288}
    \/ c \in 8192..8202

\* s.strip(): s without its leading and trailing whitespace.
Strip(s) ==
    LET keep == {k \in 1..Len(s) : ~IsSpace(s[k])}
    IN  IF keep = {} THEN << >> ELSE SubSeq(s, Min(keep), Max(keep))

IsCont(b) == b \in 128..191

\* The range of a valid second byte after lead byte b1 of a 3- or 4-byte
\* sequence (overlong forms, surrogates and values past U+10FFFF are
\* malformed).
SecondOk(b1, b2) ==
    CASE b1 = 224 -> b2 \in 160..191
      [] b1 = 237 -> b2 \in 128..159
      [] b1 = 240 -> b2 \in 144..191
      [] b1 = 244 -> b2 \in 128..143
      [] OTHER    -> IsCont(b2)

\* The number of bytes of the sequence lead byte b1 announces, 0 for a byte
\* that cannot start one.
SeqLen(b1) ==
    IF b1 < 128 THEN 1
    ELSE IF b1 \in 194..223 THEN 2
    ELSE IF b1 \in 224..239 THEN 3
    ELSE IF b1 \in 240..244 THEN 4
    ELSE 0

\* Whether a well-formed sequence starts at position k of b.
StartsChar(b, k) ==
    LET m == SeqLen(b[k])
    IN  /\ m > 0
        /\ k + m - 1 <= Len(b)
        /\ m >= 2 => SecondOk(b[k], b[k + 1])
        /\ \A j \in 2..(m - 1) : IsCont(b[k + j])

\* The code point of the well-formed sequence at position k of b.
CodePoint(b, k) ==
    CASE SeqLen(b[k]) = 1 -> b[k]
      [] SeqLen(b[k]) = 2 -> (b[k] - 192) * 64 + (b[k + 1] - 128)
      [] SeqLen(b[k]) = 3 ->
            (b[k] - 224) * 4096 + (b[k + 1] - 128) * 64 + (b[k + 2] - 128)
      [] OTHER ->
            (b[k] - 240) * 262144 + (b[k + 1] - 128) * 4096
            + (b[k + 2] - 128) * 64 + (b[k + 3] - 128)

\* bytes.decode('utf-8', errors='ignore'): each well-formed sequence becomes
\* one code point; every other byte is dropped.  A malformed sequence is
\* dropped up to the byte that breaks it and decoding resumes at that byte;
\* as no byte is both a lead and a continuation byte, the characters are
\* exactly the well-formed sequences, in order.
Utf8DecodeIgnore(b) ==
    LET Starts(k) == StartsChar(b, k)
        at        == SelectSeq(Positions(b), Starts)
    IN  [j \in 1..Len(at) |-> CodePoint(b, at[j])]

\* ------------------------------------------------------- the catalog

\* The format tags, as text.
ExtZip == << 122, 105, 112 >>

ExtPdf == << 112, 100, 102 >>

ExtPng == << 112, 110, 103 >>

ExtJpg == << 106, 112, 103 >>

ExtGif == << 103, 105, 102 >>

ExtTiff == << 116, 105, 102, 102 >>

ExtTxt == << 116, 120, 116 >>

\* FILE_SIGNATURES in its iteration (insertion) order.
FILE_SIGNATURES ==
    << [magic |-> << 80, 75, 3, 4 >>, ext |-> ExtZip, footer |-> << 80, 75, 5, 6 >>],
       [magic |-> << 37, 80, 68, 70 >>, ext |-> ExtPdf, footer |-> << 37, 37, 69, 79, 70 >>],
       [magic |-> << 137, 80, 78, 71, 13, 10, 26, 10 >>, ext |-> ExtPng,
        footer |-> << 73, 69, 78, 68, 174, 66, 96, 130 >>],
       [magic |-> << 255, 216, 255 >>, ext |-> ExtJpg, footer |-> << 255, 217 >>],
       [magic |-> << 71, 73, 70, 56, 55, 97 >>, ext |-> ExtGif, footer |-> << >>],
       [magic |-> << 71, 73, 70, 56, 57, 97 >>, ext |-> ExtGif, footer |-> << >>],
       [magic |-> << 73, 73, 42, 0 >>, ext |-> ExtTiff, footer |-> << >>],
       [magic |-> << 77, 77, 0, 42 >>, ext |-> ExtTiff, footer |-> << >>],
       [magic |-> << 239, 187, 191 >>, ext |-> ExtTxt, footer |-> << >>],
       [magic |-> << 255, 254 >>, ext |-> ExtTxt, footer |-> << >>],
       [magic |-> << 254, 255 >>, ext |-> ExtTxt, footer |-> << >>],
       [magic |-> << 0, 0, 254, 255 >>, ext |-> ExtTxt, footer |-> << >>],
       [magic |-> << 255, 254, 0, 0 >>, ext |-> ExtTxt, footer |-> << >>] >>

\* ------------------------------------------------------- the scanner

\* The tuple (signature, offset, extension, footer) appended at line 40.
Hit(e, offset) ==
    [signature |-> e.magic, offset |-> offset, extension |-> e.ext, footer |-> e.footer]

\* Mutant of ScanEntry: the next search starts after the whole match
\* (offset + len(signature)) instead of one byte on.
RECURSIVE ScanEntrySkippingMatch(_, _, _)
ScanEntrySkippingMatch(data, e, offset) ==
    IF offset = -1 THEN << >>
    ELSE << Hit(e, offset) >>
         \o ScanEntrySkippingMatch(data, e, Find(data, e.magic, offset + Len(e.magic)))

\* The while loop of find_file_signatures for one catalog entry, entered
\* with the offset the previous find returned.
RECURSIVE ScanEntry(_, _, _)
ScanEntry(data, e, offset) ==
    IF offset = -1 THEN << >>
    ELSE << Hit(e, offset) >> \o ScanEntry(data, e, Find(data, e.magic, offset + 1))

\* The for loop over FILE_SIGNATURES.items(), from entry c on.
RECURSIVE ScanCatalog(_, _)
ScanCatalog(data, c) ==
    IF c > Len(FILE_SIGNATURES) THEN << >>
    ELSE ScanEntry(data, FILE_SIGNATURES[c], Find(data, FILE_SIGNATURES[c].magic, 0))
         \o ScanCatalog(data, c + 1)

\* Mutant of InsertByOffset: h goes before the elements with an equal key
\* (an unstable sort).
RECURSIVE InsertBeforeEqual(_, _)
InsertBeforeEqual(s, h) ==
    IF s = << >> THEN << h >>
    ELSE IF s[Len(s)].offset < h.offset THEN Append(s, h)
    ELSE Append(InsertBeforeEqual(SubSeq(s, 1, Len(s) - 1), h), s[Len(s)])

\* Where h goes in the sorted list s: after every element whose key is not
\* greater (list.sort is stable).
RECURSIVE InsertByOffset(_, _)
InsertByOffset(s, h) ==
    IF s = << >> THEN << h >>
    ELSE IF s[Len(s)].offset <= h.offset THEN Append(s, h)
    ELSE Append(InsertByOffset(SubSeq(s, 1, Len(s) - 1), h), s[Len(s)])

\* signatures.sort(key=lambda x: x[1])
RECURSIVE SortByOffset(_)
SortByOffset(s) ==
    IF s = << >> THEN << >>
    ELSE InsertByOffset(SortByOffset(SubSeq(s, 1, Len(s) - 1)), s[Len(s)])

find_file_signatures(data) == SortByOffset(ScanCatalog(data, 1))

\* ---------------------------------------------- the filename heuristic

\* The length of the prefix extract_filename decodes.
NameWindow == 100

\* The test of line 57 on one fragment.
PartMatches(part, extension) ==
    /\ Len(part) > 1
    /\ Contains(part, 46)
    /\ LET pieces == Split(part, 46) IN pieces[Len(pieces)] = extension

\* The for loop of extract_filename over the fragments, from fragment k on.
RECURSIVE FirstPart(_, _, _)
FirstPart(parts, k, extension) ==
    IF k > Len(parts) THEN << 102, 105, 108, 101, 46 >> \o extension
    ELSE IF PartMatches(parts[k], extension) THEN Strip(parts[k])
    ELSE FirstPart(parts, k + 1, extension)

\* Mutant of extract_filename: the whole slice is decoded, not its first
\* NameWindow bytes.
extract_filename_whole(data, start, extension) ==
    LET possible_filename == Utf8DecodeIgnore(PySlice(data, start, Len(data)))
    IN  FirstPart(Split(possible_filename, 0), 1, extension)

extract_filename(data, start, extension) ==
    LET possible_filename == Utf8DecodeIgnore(PySlice(data, start, start + NameWindow))
    IN  FirstPart(Split(possible_filename, 0), 1, extension)

\* ------------------------------------------------- the extraction run

VARIABLES
    data,        \* the bytes read from image_path (line 71)
    pc,          \* where the run is: "scan", "loop", "returned", "exited"
    signatures,  \* the list find_file_signatures returned (line 73)
    i,           \* the 0-based index of the next Hit of the for loop (line 79)
    files,       \* the output directory: path -> content, as written by the run
    extracted,   \* one entry per completed iteration, in order (lines 80-93)
    failedAt,    \* the index of the Hit whose write raised, or -1
    exit,        \* the exit status of the process, -1 while it runs
    extension,   \* the format tag extract_filename is called with
    filename     \* what extract_filename returned last (line 88)

vars == << data, pc, signatures, i, files, extracted, failedAt, exit,
           extension, filename >>

\* The pieces the input buffers are built from: catalog magics and footers,
\* a piece that overlaps a magic with itself, an embedded name, payload.
Chunks ==
    { << 255, 216, 255 >>,
      << 255, 217 >>,
      << 216, 255 >>,
      << 71, 73, 70, 56, 57, 97 >>,
      << 255, 254, 0, 0 >>,
      << 37, 80, 68, 70 >>,
      << 80, 75, 3, 4 >>,
      << 137, 80, 78, 71, 13, 10, 26, 10 >>,
      << 32, 97, 46, 106, 112, 103 >>,
      << 0 >>,
      << 120 >> }

RECURSIVE Concat(_)
Concat(ss) == IF ss = << >> THEN << >> ELSE Head(ss) \o Concat(Tail(ss))

Buffers == { Concat(cs) : cs \in UNION { [1..n -> Chunks] : n \in 0..MaxChunks } }

\* Mutant of ResolveEnd: the footer is searched from the start of the
\* buffer, not from the Hit's offset.
ResolveEndFooterFromZero(d, sigs, k) ==
    LET h == sigs[k + 1]
    IN  IF h.footer # << >>
        THEN Find(d, h.footer, 0) + Len(h.footer)
        ELSE IF k + 1 < Len(sigs) THEN sigs[k + 2].offset ELSE Len(d)

\* Mutant of ResolveEnd: a Hit without a footer always runs to the end of
\* the buffer.
ResolveEndIgnoringNextHit(d, sigs, k) ==
    LET h == sigs[k + 1]
    IN  IF h.footer # << >>
        THEN Find(d, h.footer, h.offset) + Len(h.footer)
        ELSE Len(d)

\* Mutant of ResolveEnd: the end lies one byte past the footer.
ResolveEndPastFooter(d, sigs, k) ==
    LET h == sigs[k + 1]
    IN  IF h.footer # << >>
        THEN Find(d, h.footer, h.offset) + Len(h.footer) + 1
        ELSE IF k + 1 < Len(sigs) THEN sigs[k + 2].offset ELSE Len(d)

\* The end offset the loop body resolves for Hit i (lines 80-84).
ResolveEnd(d, sigs, k) ==
    LET h == sigs[k + 1]
    IN  IF h.footer # << >>
        THEN Find(d, h.footer, h.offset) + Len(h.footer)
        ELSE IF k + 1 < Len(sigs) THEN sigs[k + 2].offset ELSE Len(d)

\* file_data of line 86.
FileData(d, sigs, k) == PySlice(d, sigs[k + 1].offset, ResolveEnd(d, sigs, k))

\* filename of line 88.
FileName(d, sigs, k) == extract_filename(FileData(d, sigs, k), 0, sigs[k + 1].extension)

\* output_directory / f"extracted_{filename}" (line 89), as the path below
\* the output directory.
OutputFile(d, sigs, k) ==
    << 101, 120, 116, 114, 97, 99, 116, 101, 100, 95 >> \o FileName(d, sigs, k)

\* Mutant of WriteFile: a path that exists is left as it is.
WriteFileKeepExisting(fs, path, content) ==
    [p \in DOMAIN fs \cup {path} |-> IF p \in DOMAIN fs THEN fs[p] ELSE content]

\* The directory after path holds content.
WriteFile(fs, path, content) ==
    [p \in DOMAIN fs \cup {path} |-> IF p = path THEN content ELSE fs[p]]

NoFiles == [p \in {} |-> << >>]

Init ==
    /\ data \in Buffers
    /\ pc = "scan"
    /\ signatures = << >>
    /\ i = 0
    /\ files = NoFiles
    /\ extracted = << >>
    /\ failedAt = -1
    /\ exit = -1
    /\ extension = << >>
    /\ filename = << >>

\* Line 73.
Scan ==
    /\ pc = "scan"
    /\ signatures' = find_file_signatures(data)
    /\ pc' = "loop"
    /\ UNCHANGED << data, i, files, extracted, failedAt, exit, extension, filename >>

\* Mutant of NoSignatures: an empty scan result is raised as an error.
NoSignaturesIsError ==
    /\ pc = "loop"
    /\ signatures = << >>
    /\ pc' = "exited"
    /\ exit' = 1
    /\ UNCHANGED << data, signatures, i, files, extracted, failedAt,
                   extension, filename >>

\* Lines 75-77: nothing was found, the function logs that and returns.
NoSignatures ==
    /\ pc = "loop"
    /\ signatures = << >>
    /\ pc' = "returned"
    /\ UNCHANGED << data, signatures, i, files, extracted, failedAt, exit,
                   extension, filename >>

\* One iteration of the for loop whose open and write succeed (lines 79-93).
ExtractHit ==
    /\ pc = "loop"
    /\ i < Len(signatures)
    /\ LET path == OutputFile(data, signatures, i)
           body == FileData(data, signatures, i)
       IN  /\ files' = WriteFile(files, path, body)
           /\ extracted' = Append(extracted,
                  [hit |-> i, start |-> signatures[i + 1].offset,
                   end |-> ResolveEnd(data, signatures, i),
                   path |-> path, size |-> Len(body)])
    /\ i' = i + 1
    /\ extension' = signatures[i + 1].extension
    /\ filename' = FileName(data, signatures, i)
    /\ UNCHANGED << data, pc, signatures, failedAt, exit >>

\* The for loop runs out of Hits and the function returns.
LoopExhausted ==
    /\ pc = "loop"
    /\ signatures # << >>
    /\ i = Len(signatures)
    /\ pc' = "returned"
    /\ UNCHANGED << data, signatures, i, files, extracted, failedAt, exit,
                   extension, filename >>

\* open(output_file, 'wb') raises for Hit i (line 91): nothing is created,
\* the exception leaves the loop and main's handler exits with 1 (128-130).
OpenFails ==
    /\ pc = "loop"
    /\ i < Len(signatures)
    /\ failedAt' = i
    /\ pc' = "exited"
    /\ exit' = 1
    /\ extension' = signatures[i + 1].extension
    /\ filename' = FileName(data, signatures, i)
    /\ UNCHANGED << data, signatures, i, files, extracted >>

\* Mutant of WriteFails: the error is swallowed and the loop goes on with
\* the next Hit.
WriteFailsSwallowed ==
    /\ pc = "loop"
    /\ i < Len(signatures)
    /\ files' = WriteFile(files, OutputFile(data, signatures, i), << >>)
    /\ failedAt' = i
    /\ i' = i + 1
    /\ extension' = signatures[i + 1].extension
    /\ filename' = FileName(data, signatures, i)
    /\ UNCHANGED << data, pc, signatures, extracted, exit >>

\* f.write(file_data), or the flush on leaving the with block, raises for
\* Hit i (lines 91-92): open has created or truncated the file, which keeps
\* whatever prefix reached it; main's handler exits with 1 (128-130).
WriteFails ==
    /\ pc = "loop"
    /\ i < Len(signatures)
    /\ \E n \in 0..MaxPartial :
          /\ n <= Len(FileData(data, signatures, i))
          /\ files' = WriteFile(files, OutputFile(data, signatures, i),
                                SubSeq(FileData(data, signatures, i), 1, n))
    /\ failedAt' = i
    /\ pc' = "exited"
    /\ exit' = 1
    /\ extension' = signatures[i + 1].extension
    /\ filename' = FileName(data, signatures, i)
    /\ UNCHANGED << data, signatures, i, extracted >>

\* extract_files_from_image returned: main logs completion and the process
\* ends with status 0 (lines 126-127).
MainCompleted ==
    /\ pc = "returned"
    /\ pc' = "exited"
    /\ exit' = 0
    /\ UNCHANGED << data, signatures, i, files, extracted, failedAt,
                   extension, filename >>

Next ==
    \/ Scan
    \/ NoSignatures
    \/ ExtractHit
    \/ LoopExhausted
    \/ OpenFails
    \/ WriteFails
    \/ MainCompleted

Spec == Init /\ [][Next]_vars

\* ------------------------------------- extract_filename on its own

\* The pieces the slices given to extract_filename are built from: separators,
\* whitespace, names with and without the wanted extension, a byte that does
\* not decode, a multi-byte character, and a run of payload that pushes what
\* follows it to the edge of the decoded window.
NameChunks ==
    { << 0 >>,
      << 32 >>,
      << 97, 46, 106, 112, 103 >>,
      << 97, 46, 74, 80, 71 >>,
      << 46, 116, 120, 116 >>,
      << 255 >>,
      << 239, 187, 191 >>,
      [k \in 1..(NameWindow - 3) |-> 120] }

\* The catalog entries the slices start with: one with a footer (jpg) and
\* one without, whose magic decodes to a character (txt, the BOM).
NameEntries == { FILE_SIGNATURES[4], FILE_SIGNATURES[9] }

NameBodies == { Concat(cs) : cs \in UNION { [1..n -> NameChunks] : n \in 0..MaxNameChunks } }

\* Whether d is a slice the loop passes to extract_filename: the file_data
\* of the first Hit of the buffer d.
IsCandidateSlice(d) ==
    LET sigs == find_file_signatures(d)
    IN  /\ sigs # << >>
        /\ sigs[1].offset = 0
        /\ FileData(d, sigs, 0) = d

\* The slices: a magic, a body, and the footer of the magic's format.
NameInputs ==
    { d \in { e.magic \o body \o e.footer : e \in NameEntries, body \in NameBodies } :
         IsCandidateSlice(d) }

InitName ==
    /\ data \in NameInputs
    /\ extension = find_file_signatures(data)[1].extension
    /\ filename = << >>
    /\ pc = "call"
    /\ signatures = << >>
    /\ i = 0
    /\ files = NoFiles
    /\ extracted = << >>
    /\ failedAt = -1
    /\ exit = -1

\* The call of line 88 on a slice and its format tag.
CallExtractFilename ==
    /\ pc = "call"
    /\ filename' = extract_filename(data, 0, extension)
    /\ pc' = "called"
    /\ UNCHANGED << data, signatures, i, files, extracted, failedAt, exit, extension >>

NextName == CallExtractFilename

SpecName == InitName /\ [][NextName]_vars

\* ------------------------------------------------------------ claims

\* Whether sub occurs in d at 0-based position p.
Occurs(d, sub, p) ==
    /\ 0 <= p
    /\ p <= Len(d) - Len(sub)
    /\ \A j \in 1..Len(sub) : d[p + j] = sub[j]

\* The positions at or after Hit h's offset where its footer occurs.
FooterPositions(d, h) == { p \in h.offset..Len(d) : Occurs(d, h.footer, p) }

\* Whether no magic of the catalog occurs anywhere in d.
NoCatalogSignature(d) ==
    \A c \in 1..Len(FILE_SIGNATURES) : \A p \in 0..Len(d) :
        ~Occurs(d, FILE_SIGNATURES[c].magic, p)

\* The position of Hit h's magic in the catalog's iteration order.
CatalogIndex(h) == CHOOSE c \in 1..Len(FILE_SIGNATURES) : FILE_SIGNATURES[c].magic = h.signature

\* find_file_signatures has just returned: signatures holds its result, and
\* no later step assigns it.
Scanned == pc = "loop" /\ i = 0

\* The paths the completed iterations wrote to.
WrittenPaths == { extracted[k].path : k \in 1..Len(extracted) }

\* The bytes the last completed iteration that wrote to path put there.
LastWritten(path) ==
    LET k == Max({ j \in 1..Len(extracted) : extracted[j].path = path })
    IN  PySlice(data, extracted[k].start, extracted[k].end)

\* C1: for every Hit with a footer whose footer does not occur at or after
\* the Hit's offset, the resolved end is len(buffer) and the written slice is
\* buffer[offset:len(buffer)].
C1_MissingFooterEndsAtBufferEnd ==
    \A k \in 1..Len(extracted) :
        (signatures[k].footer # << >> /\ FooterPositions(data, signatures[k]) = {})
        => /\ extracted[k].end = Len(data)
           /\ extracted[k].size = Len(data) - signatures[k].offset

\* C2: for every Hit with a footer whose footer occurs at or after the Hit's
\* offset, the resolved end is f + len(footer) for the smallest such
\* position f, and the slice written is buffer[offset:f + len(footer)].
C2_FooterFoundEndsAfterFooter ==
    \A k \in 1..Len(extracted) :
        (signatures[k].footer # << >> /\ FooterPositions(data, signatures[k]) # {})
        => LET f == Min(FooterPositions(data, signatures[k]))
           IN  /\ extracted[k].end = f + Len(signatures[k].footer)
               /\ extracted[k].size = f + Len(signatures[k].footer) - signatures[k].offset

\* C2 witness: a Hit whose footer was found and whose span ends before the
\* end of the buffer.
C2_Witness ==
    \E k \in 1..Len(extracted) :
        /\ signatures[k].footer # << >>
        /\ FooterPositions(data, signatures[k]) # {}
        /\ extracted[k].end < Len(data)
        /\ extracted[k].size > 0

\* C3: for every Hit without a footer the resolved end is the offset of the
\* next Hit of the sorted list, or len(buffer) for the last Hit; so two
\* adjacent footerless Hits at a < b give the first the span [a, b).
C3_NoFooterEndsAtNextHit ==
    \A k \in 1..Len(extracted) :
        signatures[k].footer = << >>
        => /\ extracted[k].end =
                  IF k < Len(signatures) THEN signatures[k + 1].offset ELSE Len(data)
           /\ (k < Len(signatures) /\ signatures[k + 1].footer = << >>
               /\ signatures[k].offset < signatures[k + 1].offset)
              => /\ extracted[k].start = signatures[k].offset
                 /\ extracted[k].size = signatures[k + 1].offset - signatures[k].offset

\* C3 witness: two adjacent footerless Hits at a < b, both extracted, the
\* second being the last Hit.
C3_Witness ==
    \E k \in 1..Len(extracted) :
        /\ k + 1 = Len(signatures)
        /\ Len(extracted) = Len(signatures)
        /\ signatures[k].footer = << >>
        /\ signatures[k + 1].footer = << >>
        /\ signatures[k].offset < signatures[k + 1].offset
        /\ extracted[k + 1].end = Len(data)

\* C4: the list find_file_signatures returns is in non-decreasing offset
\* order, and Hits with equal offsets are in catalog iteration order.
C4_HitsSortedTiesInCatalogOrder ==
    Scanned =>
        \A p \in 1..Len(signatures) : \A q \in 1..Len(signatures) :
            p < q =>
                /\ signatures[p].offset <= signatures[q].offset
                /\ signatures[p].offset = signatures[q].offset
                   => CatalogIndex(signatures[p]) < CatalogIndex(signatures[q])

\* C4 witness: a scan result with two Hits at one offset, and with a Hit of
\* a later catalog entry sorted before a Hit of an earlier one.
C4_Witness ==
    /\ Scanned
    /\ \E p \in 1..Len(signatures) : \E q \in 1..Len(signatures) :
          p < q /\ signatures[p].offset = signatures[q].offset
    /\ \E p \in 1..Len(signatures) : \E q \in 1..Len(signatures) :
          /\ p < q
          /\ signatures[p].offset < signatures[q].offset
          /\ CatalogIndex(signatures[p]) > CatalogIndex(signatures[q])

\* C5: for a buffer in which no catalog signature occurs, the scan returns
\* the empty list, no file is written, and the run ends with status 0.
C5_NoSignatureNoFilesSuccess ==
    NoCatalogSignature(data) =>
        /\ pc # "scan" => signatures = << >>
        /\ files = NoFiles
        /\ extracted = << >>
        /\ failedAt = -1
        /\ exit \in {-1, 0}
        /\ pc = "exited" => exit = 0

\* C5 witness: a run over a non-empty buffer without any signature has ended.
C5_Witness ==
    /\ NoCatalogSignature(data)
    /\ data # << >>
    /\ pc = "exited"
    /\ exit = 0

\* C6: a completed run has written once per Hit, in ascending offset order,
\* to extracted_<filename>; a path several Hits share holds the bytes of the
\* last of them, and there are at most as many files as Hits.
C6_OneWritePerHitLastWins ==
    (pc = "exited" /\ exit = 0) =>
        /\ Len(extracted) = Len(signatures)
        /\ \A k \in 1..Len(extracted) :
              /\ extracted[k].hit = k - 1
              /\ extracted[k].start = signatures[k].offset
              /\ Len(extracted[k].path) > 10
              /\ SubSeq(extracted[k].path, 1, 10)
                     = << 101, 120, 116, 114, 97, 99, 116, 101, 100, 95 >>
              /\ k > 1 => extracted[k - 1].start <= extracted[k].start
        /\ DOMAIN files = WrittenPaths
        /\ \A path \in DOMAIN files : files[path] = LastWritten(path)
        /\ Cardinality(DOMAIN files) <= Len(signatures)

\* C6 witness: a completed run in which two Hits with different bytes wrote
\* to one path.
C6_Witness ==
    /\ pc = "exited"
    /\ exit = 0
    /\ \E k \in 1..Len(extracted) : \E l \in 1..Len(extracted) :
          /\ k < l
          /\ extracted[k].path = extracted[l].path
          /\ PySlice(data, extracted[k].start, extracted[k].end)
                 # PySlice(data, extracted[l].start, extracted[l].end)
    /\ Cardinality(DOMAIN files) < Len(signatures)

\* C7 as claimed: when the write for Hit i fails, no later Hit is written,
\* every file written for an earlier Hit is in place with its contents
\* unchanged, and the process exits with a non-zero status.
C7_FailedWriteLeavesEarlierFilesUnchanged ==
    failedAt # -1 =>
        /\ pc = "exited"
        /\ exit # 0 /\ exit # -1
        /\ Len(extracted) = failedAt
        /\ \A path \in WrittenPaths :
              path \in DOMAIN files /\ files[path] = LastWritten(path)

\* C7 as amended: as claimed, except that the file at the path of Hit i's
\* own output may have been truncated or partly overwritten by the failed
\* write; every file at another path is in place and unchanged, and nothing
\* else was created.
C7_FailedWriteLeavesOtherPathsUnchanged ==
    failedAt # -1 =>
        /\ pc = "exited"
        /\ exit # 0 /\ exit # -1
        /\ Len(extracted) = failedAt
        /\ WrittenPaths \subseteq DOMAIN files
        /\ DOMAIN files \subseteq WrittenPaths \cup {OutputFile(data, signatures, failedAt)}
        /\ \A path \in WrittenPaths :
              path # OutputFile(data, signatures, failedAt)
              => files[path] = LastWritten(path)

\* C7 witness: the write failed for a Hit after files had been written for
\* earlier Hits, at another path as well as at the failing Hit's own path.
C7_Witness ==
    /\ failedAt >= 2
    /\ OutputFile(data, signatures, failedAt) \in WrittenPaths
    /\ \E path \in WrittenPaths : path # OutputFile(data, signatures, failedAt)

\* C8: the scan returns exactly one Hit for each pair of a catalog entry and
\* an offset at which that entry's magic occurs, and no other Hit.
C8_OneHitPerOccurrence ==
    Scanned =>
        /\ \A c \in 1..Len(FILE_SIGNATURES) : \A p \in 0..Len(data) :
              Occurs(data, FILE_SIGNATURES[c].magic, p)
              => \E k \in 1..Len(signatures) : signatures[k] = Hit(FILE_SIGNATURES[c], p)
        /\ \A k \in 1..Len(signatures) :
              \E c \in 1..Len(FILE_SIGNATURES) :
                  /\ signatures[k] = Hit(FILE_SIGNATURES[c], signatures[k].offset)
                  /\ Occurs(data, FILE_SIGNATURES[c].magic, signatures[k].offset)
        /\ \A k \in 1..Len(signatures) : \A l \in 1..Len(signatures) :
              k # l => signatures[k] # signatures[l]

\* C8 witness: a scan result holding two overlapping occurrences of one
\* signature and two entries matching at one offset.
C8_Witness ==
    /\ Scanned
    /\ \E p \in 1..Len(signatures) : \E q \in 1..Len(signatures) :
          /\ signatures[p].signature = signatures[q].signature
          /\ signatures[p].offset < signatures[q].offset
          /\ signatures[q].offset < signatures[p].offset + Len(signatures[p].signature)
    /\ \E p \in 1..Len(signatures) : \E q \in 1..Len(signatures) :
          /\ signatures[p].signature # signatures[q].signature
          /\ signatures[p].offset = signatures[q].offset

\* C9: for every Hit processed, the resolved end is at most len(buffer), and
\* is greater than the Hit's offset unless the written slice is empty.
C9_EndWithinBuffer ==
    \A k \in 1..Len(extracted) :
        /\ extracted[k].end <= Len(data)
        /\ extracted[k].end > extracted[k].start \/ extracted[k].size = 0
        /\ extracted[k].path \in DOMAIN files

\* C9 witness: an empty slice was written as a file, and another Hit's span
\* reaches the end of the buffer.
C9_Witness ==
    /\ \E k \in 1..Len(extracted) :
          /\ extracted[k].end <= extracted[k].start
          /\ extracted[k].size = 0
          /\ files[extracted[k].path] = << >>
    /\ \E k \in 1..Len(extracted) :
          extracted[k].end = Len(data) /\ extracted[k].size > 0

\* The text extract_filename looks at: the permissive decoding of the first
\* NameWindow bytes of the slice.
NameText ==
    Utf8DecodeIgnore(SubSeq(data, 1, IF Len(data) < NameWindow THEN Len(data) ELSE NameWindow))

\* Where the NUL-separated fragments of text t start: a fragment starts
\* after position a, for a = 0 and for every NUL at a.
FragmentStarts(t) == {0} \cup { k \in 1..Len(t) : t[k] = 0 }

\* The fragment of t that starts after position a: it runs up to the next NUL.
FragmentAt(t, a) ==
    LET b == Min({ k \in (a + 1)..Len(t) : t[k] = 0 } \cup {Len(t) + 1})
    IN  SubSeq(t, a + 1, b - 1)

\* Whether fragment f is longer than one character and the text after its
\* final '.' is ext.
HasExtension(f, ext) ==
    /\ Len(f) > 1
    /\ \E p \in 1..Len(f) :
          /\ f[p] = 46
          /\ \A q \in (p + 1)..Len(f) : f[q] # 46
          /\ SubSeq(f, p + 1, Len(f)) = ext

\* The starts of the fragments of t that carry extension ext.
NamedFragments(t, ext) == { a \in FragmentStarts(t) : HasExtension(FragmentAt(t, a), ext) }

\* C10 as claimed: extract_filename returns the first fragment of the decoded
\* first 100 bytes that is longer than one character and has the format tag
\* after its final '.', unmodified, and 'file.<format>' when there is none.
C10_ReturnsFirstFragmentUnmodified ==
    pc = "called" =>
        LET t    == NameText
            good == NamedFragments(t, extension)
        IN  filename = IF good = {}
                       THEN << 102, 105, 108, 101, 46 >> \o extension
                       ELSE FragmentAt(t, Min(good))

\* C10 as amended: extract_filename returns that fragment with its leading
\* and trailing whitespace removed, and 'file.<format>' when there is none.
C10_ReturnsFirstFragmentStripped ==
    pc = "called" =>
        LET t    == NameText
            good == NamedFragments(t, extension)
        IN  filename = IF good = {}
                       THEN << 102, 105, 108, 101, 46 >> \o extension
                       ELSE Strip(FragmentAt(t, Min(good)))

\* C10 witness: a call returned a fragment that is not the first fragment of
\* the text and that lost leading whitespace.
C10_Witness ==
    /\ pc = "called"
    /\ LET t    == NameText
           good == NamedFragments(t, extension)
       IN  /\ good # {}
           /\ Min(good) > 0
           /\ filename # FragmentAt(t, Min(good))
           /\ filename # << 102, 105, 108, 101, 46 >> \o extension

====
